---- MODULE Spec2Model ----
(***************************************************************************)
(* A WebDAV gateway over a flat S3-compatible object store                 *)
(* (src/src/index.ts).  Strings (URL paths, resource paths, store keys)    *)
(* are sequences of one-character strings, so that slicing, splitting on   *)
(* "/" and prefix matching are computed as the code computes them.         *)
(* Every call to the object store is one atomic step of the store; a       *)
(* handler is suspended exactly at its store calls.                        *)
(***************************************************************************)
EXTENDS Integers, Sequences, FiniteSets, TLC

\* ---------------------------------------------------------------- bounds
\* Longest key the store accepts (S3: 1024 bytes); longer keys are refused.
MaxKeyLen == 5
\* Largest page size (max-keys) the store may be configured with.
MaxPage == 2
\* Requests issued in one behaviour.
MaxRequests == 2

\* --------------------------------------------------------------- strings
Null == "null"

SLASH == <<"/">>

\* Byte order of the characters used in keys ("/" sorts before letters).
Rank(ch) == CASE ch = "/" -> 0 [] ch = "a" -> 1 [] ch = "b" -> 2 [] OTHER -> 3

\* String.prototype.endsWith('/')
EndsWithSlash(s) == Len(s) > 0 /\ s[Len(s)] = "/"

\* s.endsWith('/') ? s.slice(0, -1) : s
StripSlash(s) == IF EndsWithSlash(s) THEN SubSeq(s, 1, Len(s) - 1) ELSE s

\* String.prototype.startsWith
StartsWith(s, p) == Len(p) <= Len(s) /\ SubSeq(s, 1, Len(p)) = p

\* s.slice(n)
SliceFrom(s, n) == SubSeq(s, n + 1, Len(s))

\* Positions of "/" in s.
SlashAt(s) == {i \in 1..Len(s) : s[i] = "/"}

Max(S) == CHOOSE x \in S : \A y \in S : y <= x
Min(S) == CHOOSE x \in S : \A y \in S : x <= y

\* s.split('/').slice(0, -1).join('/'): everything before the last "/".
DirName(s) == IF SlashAt(s) = {} THEN <<>> ELSE SubSeq(s, 1, Max(SlashAt(s)) - 1)

\* Lexicographic (byte) order on strings: the store's native key order.
RECURSIVE Less(_, _)
Less(s, t) ==
    IF t = <<>> THEN FALSE
    ELSE IF s = <<>> THEN TRUE
    ELSE IF s[1] = t[1] THEN Less(Tail(s), Tail(t))
    ELSE Rank(s[1]) < Rank(t[1])

\* The keys of S in the store's order: the i-th has i - 1 keys before it.
SortKeys(S) ==
    [i \in 1..Cardinality(S) |->
       CHOOSE x \in S : Cardinality({y \in S : Less(y, x)}) = i - 1]

\* First n elements of a sequence.
Take(q, n) == SubSeq(q, 1, IF n < Len(q) THEN n ELSE Len(q))

Range(q) == {q[i] : i \in 1..Len(q)}

\* make_resource_path: pathname.slice(1), then one trailing slash dropped.
make_resource_path(url) == StripSlash(SliceFrom(url, 1))

\* ------------------------------------------------------- object metadata
\* User metadata (x-amz-meta-*) is a set of <<name, value>> pairs.
COLLECTION == "<collection />"
NoMeta == {}
\* Fault for C2: MKCOL uploads no sentinel header.
NoSentinel == {}
CollectionMeta == {<<"resourcetype", COLLECTION>>}

MetaGet(m, n) == IF \E p \in m : p[1] = n THEN (CHOOSE p \in m : p[1] = n)[2] ELSE Null

\* A stored object: body bytes, user metadata, Content-Type header.
Obj(body, meta, ctype) == [body |-> body, meta |-> meta, ctype |-> ctype]

\* ------------------------------------------------------ the object store
\* The store is a function from the keys that are present to their objects.
\* The empty key addresses the bucket itself (getS3Url with a falsy key).
\* faults holds the calls the store cannot serve: a pair <<operation, key>>
\* in it makes every such call on that key answer 500 Internal Error.
VARIABLES store, limit, faults

Fails(op, key) == <<op, key>> \in faults

\* No continuation token (undefined, or the empty string: both are falsy).
NoToken == <<>>

NoHead == [status |-> 404, meta |-> NoMeta, ctype |-> Null, size |-> 0]

KeyTooLong(key) == Len(key) > MaxKeyLen

\* HEAD object: 200 with the object's headers, 404 when the key is absent.
S3Head(s, key) ==
    IF Fails("HEAD", key) THEN [NoHead EXCEPT !.status = 500]
    ELSE IF key = <<>> THEN [NoHead EXCEPT !.status = 200]
    ELSE IF KeyTooLong(key) THEN [NoHead EXCEPT !.status = 400]
    ELSE IF key \in DOMAIN s
         THEN [status |-> 200, meta |-> s[key].meta, ctype |-> s[key].ctype,
               size |-> Len(s[key].body)]
         ELSE NoHead

\* GET object, with an optional Range header ("bytes=0-0" when ranged).
S3Get(s, key, ranged) ==
    IF key = <<>> \/ key \notin DOMAIN s
    THEN [status |-> IF key = <<>> THEN 200 ELSE 404, body |-> <<>>, ctype |-> Null]
    ELSE IF ~ranged THEN [status |-> 200, body |-> s[key].body, ctype |-> s[key].ctype]
    ELSE IF s[key].body = <<>> THEN [status |-> 416, body |-> <<>>, ctype |-> Null]
    ELSE [status |-> 206, body |-> Take(s[key].body, 1), ctype |-> s[key].ctype]

\* The store with key k bound to object o.
Bind(s, k, o) == [x \in DOMAIN s \cup {k} |-> IF x = k THEN o ELSE s[x]]

\* The store without the keys in K.
Unbind(s, K) == [x \in DOMAIN s \ K |-> s[x]]

\* Fault for C20: an upload to a key that is present is acknowledged and
\* dropped, so the first writer wins.
S3PutIfAbsent(s, key, body, meta, ctype) ==
    IF key = <<>> THEN [status |-> 409, store |-> s]
    ELSE IF key \in DOMAIN s THEN [status |-> 200, store |-> s]
    ELSE [status |-> 200,
          store |-> Bind(s, key, Obj(body, meta,
                         IF ctype = Null THEN "binary/octet-stream" ELSE ctype))]

\* PUT object: replaces the object at key; the store supplies a default
\* Content-Type when the request carries none.
S3Put(s, key, body, meta, ctype) ==
    IF key = <<>> THEN [status |-> 409, store |-> s]
    ELSE IF KeyTooLong(key) THEN [status |-> 400, store |-> s]
    ELSE [status |-> 200,
          store |-> Bind(s, key, Obj(body, meta,
                         IF ctype = Null THEN "binary/octet-stream" ELSE ctype))]

\* PUT with x-amz-copy-source: server-side copy of body, metadata and
\* headers; 404 when the source key is absent, 400 for a copy onto itself.
S3Copy(s, src, dst) ==
    IF Fails("COPY", dst) THEN [status |-> 500, store |-> s]
    ELSE IF dst = <<>> THEN [status |-> 409, store |-> s]
    ELSE IF KeyTooLong(dst) \/ src = <<>> THEN [status |-> 400, store |-> s]
    ELSE IF src \notin DOMAIN s THEN [status |-> 404, store |-> s]
    ELSE IF src = dst THEN [status |-> 400, store |-> s]
    ELSE [status |-> 200, store |-> Bind(s, dst, s[src])]

\* DELETE object: 204 whether or not the key was present.
S3Delete(s, key) ==
    IF Fails("DELETE", key) THEN [status |-> 500, store |-> s]
    ELSE [status |-> 204, store |-> Unbind(s, {key})]

\* POST ?delete: multi-object delete.
S3DeleteObjects(s, keys) == [status |-> 200, store |-> Unbind(s, keys)]

\* The listing entry a key contributes: the key itself (Contents), or,
\* with a delimiter, the common prefix up to the first "/" after the prefix.
ListEntry(key, prefix, delimited) ==
    LET rest == SliceFrom(key, Len(prefix))
    IN  IF delimited /\ SlashAt(rest) # {}
        THEN [key |-> prefix \o SubSeq(rest, 1, Min(SlashAt(rest))), cp |-> TRUE]
        ELSE [key |-> key, cp |-> FALSE]

\* ListObjectsV2: one page of at most lim entries (Contents and
\* CommonPrefixes together) after the continuation token, in key order.
\* The token stands for the last entry of the previous page.
S3List(s, prefix, delimited, token, lim) ==
    LET matching == {k \in DOMAIN s : StartsWith(k, prefix)}
        entries  == {ListEntry(k, prefix, delimited) : k \in matching}
        names    == {e.key : e \in entries}
        after    == IF token = NoToken THEN names ELSE {n \in names : Less(token, n)}
        sorted   == SortKeys(after)
        page     == Take(sorted, lim)
        EntryOf(n) == CHOOSE e \in entries : e.key = n
    IN  [status |-> 200,
         items  |-> [i \in 1..Len(page) |->
                      [key  |-> page[i],
                       cp   |-> EntryOf(page[i]).cp,
                       size |-> IF page[i] \in DOMAIN s THEN Len(s[page[i]].body) ELSE 0]],
         truncated |-> Len(sorted) > Len(page),
         next   |-> IF Len(sorted) > Len(page) THEN page[Len(page)] ELSE NoToken]

\* Fault for C8: a record for every entry of the page, common prefixes
\* included.
parseEveryEntry(items) ==
    [i \in 1..Len(items) |-> [key |-> items[i].key, size |-> items[i].size,
                              meta |-> {}]]

\* parseXmlToObjects: one record per <Contents> element; common prefixes
\* are not Contents, and the metadata of a listed object is always empty.
parseXmlToObjects(items) ==
    LET contents == SelectSeq(items, LAMBDA e : ~e.cp)
    IN  [i \in 1..Len(contents) |->
           [key |-> contents[i].key, size |-> contents[i].size, meta |-> NoMeta]]

\* Fault for C9: the continuation token is dropped, so the enumeration ends
\* after the first page.
listFirstPage(s, prefix, isRecursive, token, lim) ==
    [status |-> S3List(s, prefix, ~isRecursive, token, lim).status,
     objects |-> parseXmlToObjects(S3List(s, prefix, ~isRecursive, token, lim).items),
     token |-> <<>>, more |-> FALSE]

\* One iteration of listAll's do-while: fetch a page, parse it, and take the
\* next continuation token; the loop ends when the token is falsy.
listAll(s, prefix, isRecursive, token, lim) ==
    LET r == S3List(s, prefix, ~isRecursive, token, lim)
        t == IF r.truncated THEN r.next ELSE NoToken
    IN  [status |-> r.status, objects |-> parseXmlToObjects(r.items),
         token |-> t, more |-> t # NoToken]

\* --------------------------------------------------------------- requests
VARIABLES pc, req, resp, loc, store0, last, nreq

vars == <<store, limit, faults, pc, req, resp, loc, store0, last, nreq>>

\* Connections to the gateway; a request is served on each open one.
Clients == {1, 2}

SUPPORT_METHODS == {"OPTIONS", "PROPFIND", "PROPPATCH", "MKCOL", "GET", "HEAD",
                    "PUT", "DELETE", "COPY", "MOVE"}

\* Methods a client sends; LOCK stands for any method without a handler.
Methods == {"OPTIONS", "PROPFIND", "PROPPATCH", "MKCOL", "GET", "HEAD", "PUT",
            "DELETE", "COPY", "MOVE", "LOCK"}

\* URL paths of requests.
Urls == { <<"/">>, <<"/", "a">>, <<"/", "b", "/">>, <<"/", "a", "/", "a">>,
          <<"/", "a", "/", "b">>, <<"/", "a", "/", "b", "/", "a">>,
          <<"/", "a", "b">>, <<"/", "b">> }

\* URL paths of Destination headers: the root, an existing collection, a new
\* name written with a trailing slash, an existing resource, and a resource
\* two levels down.
Destinations == { <<"/">>, <<"/", "a">>, <<"/", "b", "/">>, <<"/", "a", "/", "a">>,
                  <<"/", "a", "/", "b", "/", "a">> }

Bodies == { <<>>, <<1>>, <<2, 1>> }
CTypes == { Null, "text/plain" }
\* Values of the Depth header (Null: header absent).
Depths == { Null, "0", "1", "infinity", "2" }
\* Values of the Overwrite header (Null: header absent).
Overwrites == { Null, "T", "F" }
\* Bodies of PROPPATCH requests: the <set> and <remove> instructions of a
\* propertyupdate document, each <<action, property name, value>>.
Instructions == { <<>>, << <<"set", "author", "x">> >>,
                  << <<"remove", "resourcetype", "">> >> }
\* Values of the Authorization header (Null: header absent).
EXPECTED_AUTH == "Basic dXNlcjpwYXNz"
Auths == { Null, EXPECTED_AUTH, "Basic d3Jvbmc6cGFzcw==" }

\* Fault for C10: any Basic header is accepted.
is_basic(authorization_header) == authorization_header # ""

\* is_authorized: the header equals "Basic " + btoa(username:password).
is_authorized(authorization_header) == authorization_header = EXPECTED_AUTH

NoReq == [method |-> Null, url |-> <<>>, auth |-> Null, body |-> <<>>,
          ctype |-> Null, ranged |-> FALSE, dest |-> <<>>, props |-> <<>>,
          depth |-> Null]

NoResp == [status |-> 0, body |-> <<>>, clen |-> -1, www |-> FALSE,
           ms |-> <<>>, links |-> <<>>]

\* A handler's local variables.  depth, dont_overwrite and overwrite are the
\* handlers' locals of these names ("unread": the header was not consulted);
\* tasks is promise_array, keyed by source key; yielded and listed record
\* what the current listAll enumeration has produced and whether it ended;
\* failures counts the store operations of a fan-out that returned a
\* non-success status; copied holds the source keys of a MOVE whose copy
\* returned success;
\* called records that the request has issued a store call; head and
\* objectBody are handle_proppatch's headResponse and objectBody.
NoLoc == [path |-> <<>>, destination |-> <<>>, destination_exists |-> FALSE,
          is_dir |-> FALSE, resourceType |-> Null, ret |-> "client",
          depth |-> "unread", dont_overwrite |-> FALSE, overwrite |-> FALSE,
          prefix |-> <<>>, recursive |-> FALSE, token |-> NoToken,
          listing |-> FALSE, acc |-> <<>>, tasks |-> <<>>, ferr |-> 0,
          failures |-> 0, copied |-> {},
          yielded |-> <<>>, listed |-> FALSE, called |-> FALSE,
          head |-> NoHead, objectBody |-> <<>>]

\* The keys of a page of listed objects.
KeysOf(objects) == [i \in 1..Len(objects) |-> objects[i].key]

\* A listAll enumeration starts: for await (const object of listAll(...)).
ListStart(l, prefix, isRecursive) ==
    [l EXCEPT !.called = TRUE, !.prefix = prefix, !.recursive = isRecursive,
              !.listing = TRUE, !.token = NoToken, !.yielded = <<>>, !.listed = FALSE]

\* The enumeration has consumed page r.
ListNext(l, r) ==
    [l EXCEPT !.token = r.token, !.listing = r.more, !.listed = ~r.more,
              !.yielded = l.yielded \o KeysOf(r.objects)]

NoLast == [method |-> Null, url |-> <<>>, status |-> 0, body |-> <<>>]

Status(n) == [NoResp EXCEPT !.status = n]

\* The handler returns response r.
Respond(c, r) ==
    /\ pc' = [pc EXCEPT ![c] = "done"]
    /\ resp' = [resp EXCEPT ![c] = r]

\* The handler issues its next store call and is suspended at label l.
Goto(c, l) ==
    /\ pc' = [pc EXCEPT ![c] = l]
    /\ UNCHANGED resp

SetLoc(c, r) == loc' = [loc EXCEPT ![c] = r]
Called(c) == [loc[c] EXCEPT !.called = TRUE]

\* An uncaught exception: the runtime answers with a server error.
Throw(c) == Respond(c, Status(500))

\* catch (error) { if (error.message.includes('404')) return 404; throw error }
\* for an Error whose message carries the store's status code.
Catch404(c, status) == Respond(c, Status(IF status = 404 THEN 404 ELSE 500))

Ok(status) == status >= 200 /\ status <= 299

TypeOK ==
    /\ limit \in 1..MaxPage
    /\ nreq \in 0..MaxRequests
    /\ \A c \in Clients : resp[c].status \in
         {0, 200, 201, 204, 206, 207, 400, 401, 403, 404, 405, 409, 412, 500}

\* Methods that upload an object.
Uploads == {"PUT", "PROPPATCH"}
Transfers == {"COPY", "MOVE"}

\* fetch for a request of one of the given methods: the credential check,
\* then dispatch_handler's switch.
Request(c, methods) ==
    /\ pc[c] = "idle"
    /\ nreq < MaxRequests
    /\ nreq' = nreq + 1
    /\ store0' = store
    /\ \E m \in methods, u \in Urls, a \in Auths :
         /\ req' = [req EXCEPT ![c] = [NoReq EXCEPT !.method = m, !.url = u, !.auth = a]]
         /\ SetLoc(c, [NoLoc EXCEPT !.path = make_resource_path(u)])
         /\ IF m # "OPTIONS" /\ ~is_authorized(IF a = Null THEN "" ELSE a)
            THEN Respond(c, [Status(401) EXCEPT !.www = TRUE])
            ELSE IF m = "OPTIONS" THEN Respond(c, Status(204))
            ELSE IF m \notin SUPPORT_METHODS THEN Respond(c, Status(405))
            ELSE Goto(c, m)
    /\ UNCHANGED <<store, limit, faults, last>>

\* A request of any method.
fetch(c) == Request(c, Methods)

\* A request that uploads.
fetch_upload(c) == Request(c, Uploads)

\* A request that copies or moves.
fetch_transfer(c) == Request(c, Transfers)

\* The response is returned to the client (CORS headers added).
Return(c) ==
    /\ pc[c] = "done"
    /\ pc' = [pc EXCEPT ![c] = "idle"]
    /\ last' = IF req[c].method \in {"PUT", "MKCOL", "DELETE"} /\ Ok(resp[c].status)
               THEN [method |-> req[c].method, url |-> req[c].url,
                     status |-> resp[c].status, body |-> req[c].body]
               ELSE NoLast
    /\ req' = [req EXCEPT ![c] = NoReq]
    /\ resp' = [resp EXCEPT ![c] = NoResp]
    /\ SetLoc(c, NoLoc)
    /\ UNCHANGED <<store, limit, faults, store0, nreq>>

\* ------------------------------------------------------------ GET, HEAD
\* Fault for C1: the body is dropped for GET as it is for HEAD.
DropBody(c, r) == [r EXCEPT !.body = <<>>, !.links = <<>>]

\* handle_head delegates to handle_get and drops the body.
HeadStrip(c, r) == IF req[c].method = "HEAD" THEN [r EXCEPT !.body = <<>>, !.links = <<>>] ELSE r

\* handle_get up to its first store call: a URL ending in "/" is listed.
handle_get(c) ==
    /\ pc[c] \in {"GET", "HEAD"}
    /\ IF EndsWithSlash(req[c].url)
       THEN /\ SetLoc(c, ListStart(loc[c],
                   IF loc[c].path # <<>> THEN loc[c].path \o SLASH ELSE loc[c].path, FALSE))
            /\ UNCHANGED req
            /\ Goto(c, "get_list")
       ELSE /\ \E r \in BOOLEAN : req' = [req EXCEPT ![c].ranged = r]
            /\ SetLoc(c, Called(c))
            /\ Goto(c, "get_object")
    /\ UNCHANGED <<store, limit, faults, store0, last, nreq>>

\* One page of the collection listing: a link per listed object.
get_list(c) ==
    /\ pc[c] = "get_list"
    /\ LET l == loc[c]
           r == listAll(store, l.prefix, FALSE, l.token, limit)
           shown == SelectSeq(r.objects, LAMBDA o : o.key # l.path)
           links == [i \in 1..Len(shown) |->
                       SLASH \o shown[i].key \o
                       (IF MetaGet(shown[i].meta, "resourcetype") = COLLECTION
                        THEN SLASH ELSE <<>>)]
           acc == l.acc \o links
       IN  IF r.more
           THEN /\ SetLoc(c, [ListNext(l, r) EXCEPT !.acc = acc])
                /\ Goto(c, "get_list")
           ELSE /\ SetLoc(c, [ListNext(l, r) EXCEPT !.acc = <<>>])
                /\ Respond(c, HeadStrip(c, [Status(200) EXCEPT !.links = acc]))
    /\ UNCHANGED <<store, limit, faults, req, store0, last, nreq>>

\* GET of a plain resource: the store's answer is relayed.
get_object(c) ==
    /\ pc[c] = "get_object"
    /\ LET r == S3Get(store, loc[c].path, req[c].ranged)
       IN  IF r.status = 404 THEN Respond(c, HeadStrip(c, Status(404)))
           ELSE IF ~Ok(r.status) THEN Catch404(c, r.status)
           ELSE Respond(c, HeadStrip(c, [Status(IF r.status = 206 THEN 206 ELSE 200) EXCEPT
                                          !.body = r.body, !.clen = Len(r.body)]))
    /\ UNCHANGED <<store, limit, faults, req, loc, store0, last, nreq>>

\* ------------------------------------------------------------------ PUT
handle_put(c) ==
    /\ pc[c] = "PUT"
    /\ IF EndsWithSlash(req[c].url)
       THEN /\ Respond(c, Status(405))
            /\ UNCHANGED <<req, loc>>
       ELSE IF DirName(loc[c].path) # <<>>
       THEN /\ SetLoc(c, Called(c))
            /\ UNCHANGED req
            /\ Goto(c, "put_parent")
       ELSE /\ \E b \in Bodies, t \in CTypes : req' = [req EXCEPT ![c].body = b, ![c].ctype = t]
            /\ SetLoc(c, Called(c))
            /\ Goto(c, "put_object")
    /\ UNCHANGED <<store, limit, faults, store0, last, nreq>>

\* Fault for C11: the parent need only exist, as for MKCOL.
put_parent_exists(c) ==
    /\ pc[c] = "put_parent"
    /\ IF S3Head(store, DirName(loc[c].path)).status = 404
       THEN /\ Respond(c, Status(409))
            /\ UNCHANGED req
       ELSE /\ \E b \in Bodies, t \in CTypes :
                 req' = [req EXCEPT ![c].body = b, ![c].ctype = t]
            /\ Goto(c, "put_object")
    /\ UNCHANGED <<store, limit, faults, loc, store0, last, nreq>>

\* The parent must exist and carry the collection sentinel.
put_parent(c) ==
    /\ pc[c] = "put_parent"
    /\ LET response == S3Head(store, DirName(loc[c].path))
       IN  IF response.status = 404 \/ MetaGet(response.meta, "resourcetype") # COLLECTION
           THEN /\ Respond(c, Status(409))
                /\ UNCHANGED req
           ELSE /\ \E b \in Bodies, t \in CTypes :
                     req' = [req EXCEPT ![c].body = b, ![c].ctype = t]
                /\ Goto(c, "put_object")
    /\ UNCHANGED <<store, limit, faults, loc, store0, last, nreq>>

\* The upload: the body replaces the object at the key.
put_object(c) ==
    /\ pc[c] = "put_object"
    /\ LET response == S3Put(store, loc[c].path, req[c].body, NoMeta, req[c].ctype)
       IN  /\ store' = response.store
           /\ IF ~Ok(response.status) THEN Throw(c) ELSE Respond(c, Status(201))
    /\ UNCHANGED <<limit, faults, req, loc, store0, last, nreq>>

\* ---------------------------------------------------------------- MKCOL
handle_mkcol(c) ==
    /\ pc[c] = "MKCOL"
    /\ SetLoc(c, Called(c))
    /\ Goto(c, "mkcol_head")
    /\ UNCHANGED <<store, limit, faults, req, store0, last, nreq>>

\* The target must not exist.
mkcol_head(c) ==
    /\ pc[c] = "mkcol_head"
    /\ LET response == S3Head(store, loc[c].path)
       IN  IF Ok(response.status) THEN /\ Respond(c, Status(405))
                                       /\ UNCHANGED req
           ELSE IF DirName(loc[c].path) # <<>>
           THEN /\ Goto(c, "mkcol_parent")
                /\ UNCHANGED req
           ELSE /\ \E t \in CTypes : req' = [req EXCEPT ![c].ctype = t]
                /\ Goto(c, "mkcol_put")
    /\ UNCHANGED <<store, limit, faults, loc, store0, last, nreq>>

\* Fault for C12: the parent is not looked at.
mkcol_parent_skip(c) ==
    /\ pc[c] = "mkcol_parent"
    /\ \E t \in CTypes : req' = [req EXCEPT ![c].ctype = t]
    /\ Goto(c, "mkcol_put")
    /\ UNCHANGED <<store, limit, faults, loc, store0, last, nreq>>

\* The parent key must exist.
mkcol_parent(c) ==
    /\ pc[c] = "mkcol_parent"
    /\ LET parentResponse == S3Head(store, DirName(loc[c].path))
       IN  IF parentResponse.status = 404
           THEN /\ Respond(c, Status(409))
                /\ UNCHANGED req
           ELSE /\ \E t \in CTypes : req' = [req EXCEPT ![c].ctype = t]
                /\ Goto(c, "mkcol_put")
    /\ UNCHANGED <<store, limit, faults, loc, store0, last, nreq>>

\* A zero-length object carrying the collection sentinel.
mkcol_put(c) ==
    /\ pc[c] = "mkcol_put"
    /\ LET response == S3Put(store, loc[c].path, <<>>, CollectionMeta, req[c].ctype)
       IN  /\ store' = response.store
           /\ IF ~Ok(response.status) THEN Throw(c) ELSE Respond(c, Status(201))
    /\ UNCHANGED <<limit, faults, req, loc, store0, last, nreq>>

\* --------------------------------------------------------------- DELETE
\* Fault for C6: every DELETE is answered 204, also that of an absent key.
DeleteReturn204(c, status) ==
    IF loc[c].ret = "move" THEN /\ pc' = [pc EXCEPT ![c] = "move_dispatch"]
                                /\ UNCHANGED resp
    ELSE /\ pc' = [pc EXCEPT ![c] = "done"]
         /\ resp' = [resp EXCEPT ![c] = [status |-> 204, body |-> <<>>, clen |-> -1,
                                         www |-> FALSE, ms |-> <<>>, links |-> <<>>]]

\* handle_delete is also called by handle_move (ret = "move"), which
\* discards its response and goes on with the move.
DeleteReturn(c, status) ==
    IF loc[c].ret = "move" THEN Goto(c, "move_dispatch") ELSE Respond(c, Status(status))

\* An Error thrown by handle_delete: its own catch maps a 404, and so does
\* the catch of handle_move when the call came from there.
DeleteThrow(c, status, caught) ==
    IF caught \/ loc[c].ret = "move" THEN Catch404(c, status) ELSE Throw(c)

\* Fault for C7: the listing prefix lacks the "/" that ends the
\* collection's name.
DeletePrefixBare(resource_path) == resource_path

\* The prefix of a collection's contents: resource_path + '/'.
DeletePrefix(resource_path) == resource_path \o SLASH

\* handle_delete up to its first store call; key is the resource path of the
\* request handed to it.
DeleteEnter(l, key) ==
    IF key = <<>>
    THEN [ListStart(l, <<>>, TRUE) EXCEPT !.acc = <<>>]
    ELSE [l EXCEPT !.called = TRUE]

DeleteLabel(key) == IF key = <<>> THEN "delete_all_list" ELSE "delete_head"

handle_delete(c) ==
    /\ pc[c] = "DELETE"
    /\ SetLoc(c, DeleteEnter(loc[c], loc[c].path))
    /\ Goto(c, DeleteLabel(loc[c].path))
    /\ UNCHANGED <<store, limit, faults, req, store0, last, nreq>>

\* The key handle_delete works on: the request's, or the move's destination.
DeleteKey(c) == IF loc[c].ret = "move" THEN loc[c].destination ELSE loc[c].path

\* Root: every key of the store is collected, page by page.
delete_all_list(c) ==
    /\ pc[c] = "delete_all_list"
    /\ \E r \in {listAll(store, <<>>, TRUE, loc[c].token, limit)} :
         LET l == loc[c]
             objectsToDelete == l.acc \o KeysOf(r.objects)
         IN  IF r.more
             THEN /\ SetLoc(c, [ListNext(l, r) EXCEPT !.acc = objectsToDelete])
                  /\ Goto(c, "delete_all_list")
             ELSE IF Len(objectsToDelete) > 0
             THEN /\ SetLoc(c, [ListNext(l, r) EXCEPT !.acc = objectsToDelete])
                  /\ Goto(c, "delete_all_batch")
             ELSE /\ SetLoc(c, ListNext(l, r))
                  /\ DeleteReturn(c, 204)
    /\ UNCHANGED <<store, limit, faults, req, store0, last, nreq>>

delete_all_batch(c) ==
    /\ pc[c] = "delete_all_batch"
    /\ LET response == S3DeleteObjects(store, Range(loc[c].acc))
       IN  /\ store' = response.store
           /\ SetLoc(c, [loc[c] EXCEPT !.acc = <<>>])
           /\ IF ~Ok(response.status) THEN DeleteThrow(c, response.status, FALSE)
              ELSE DeleteReturn(c, 204)
    /\ UNCHANGED <<limit, faults, req, store0, last, nreq>>

\* The existence check: a 404 from HEAD is the only "absent" signal.
delete_head(c) ==
    /\ pc[c] = "delete_head"
    /\ LET headResponse == S3Head(store, DeleteKey(c))
       IN  IF headResponse.status = 404
           THEN /\ DeleteReturn(c, 404)
                /\ UNCHANGED loc
           ELSE /\ SetLoc(c, [loc[c] EXCEPT
                       !.resourceType = MetaGet(headResponse.meta, "resourcetype")])
                /\ Goto(c, "delete_object")
    /\ UNCHANGED <<store, limit, faults, req, store0, last, nreq>>

\* The object itself is deleted; a collection goes on to its descendants.
delete_object(c) ==
    /\ pc[c] = "delete_object"
    /\ LET deleteResponse == S3Delete(store, DeleteKey(c))
           l == [loc[c] EXCEPT !.resourceType = Null]
       IN  /\ store' = deleteResponse.store
           /\ IF ~Ok(deleteResponse.status)
              THEN /\ DeleteThrow(c, deleteResponse.status, TRUE)
                   /\ SetLoc(c, l)
              ELSE IF loc[c].resourceType # COLLECTION
              THEN /\ DeleteReturn(c, 204)
                   /\ SetLoc(c, l)
              ELSE /\ SetLoc(c, [ListStart(l, DeletePrefix(DeleteKey(c)), TRUE) EXCEPT !.acc = <<>>])
                   /\ Goto(c, "delete_list")
    /\ UNCHANGED <<limit, faults, req, store0, last, nreq>>

\* Every key under "<path>/" is collected, page by page.
delete_list(c) ==
    /\ pc[c] = "delete_list"
    /\ \E r \in {listAll(store, loc[c].prefix, TRUE, loc[c].token, limit)} :
         LET l == loc[c]
             objectsToDelete == l.acc \o KeysOf(r.objects)
         IN  IF r.more
             THEN /\ SetLoc(c, [ListNext(l, r) EXCEPT !.acc = objectsToDelete])
                  /\ Goto(c, "delete_list")
             ELSE IF Len(objectsToDelete) > 0
             THEN /\ SetLoc(c, [ListNext(l, r) EXCEPT !.acc = objectsToDelete])
                  /\ Goto(c, "delete_batch")
             ELSE /\ SetLoc(c, ListNext(l, r))
                  /\ DeleteReturn(c, 204)
    /\ UNCHANGED <<store, limit, faults, req, store0, last, nreq>>

delete_batch(c) ==
    /\ pc[c] = "delete_batch"
    /\ LET batchResponse == S3DeleteObjects(store, Range(loc[c].acc))
       IN  /\ store' = batchResponse.store
           /\ SetLoc(c, [loc[c] EXCEPT !.acc = <<>>])
           /\ IF ~Ok(batchResponse.status) THEN DeleteThrow(c, batchResponse.status, TRUE)
              ELSE DeleteReturn(c, 204)
    /\ UNCHANGED <<limit, faults, req, store0, last, nreq>>

\* ------------------------------------------------------------- PROPFIND
\* fromS3Object / generate_propfind_response: one <response> of a
\* multistatus; null stands for the synthetic root.
RootResponse == [href |-> SLASH, resourcetype |-> COLLECTION, getcontentlength |-> 0]

generate_propfind_response(key, meta, size) ==
    LET rt == MetaGet(meta, "resourcetype")
    IN  [href |-> SLASH \o key \o (IF rt = COLLECTION THEN SLASH ELSE <<>>),
         resourcetype |-> IF rt = Null THEN "" ELSE rt,
         getcontentlength |-> size]

\* The Depth switch of a collection: the header d defaults to infinity.
PropfindDepth(c, page, d) ==
      LET depth == IF d = Null THEN "infinity" ELSE d
          prefix == IF loc[c].path = <<>> THEN loc[c].path ELSE loc[c].path \o SLASH
          l == [loc[c] EXCEPT !.depth = depth]
      IN  IF depth = "0"
          THEN /\ Respond(c, [Status(207) EXCEPT !.ms = page])
               /\ SetLoc(c, l)
          ELSE IF depth \in {"1", "infinity"}
          THEN /\ SetLoc(c, [ListStart(l, prefix, depth = "infinity") EXCEPT !.acc = page])
               /\ Goto(c, "propfind_list")
          ELSE /\ Respond(c, Status(403))
               /\ SetLoc(c, l)

handle_propfind(c) ==
    /\ pc[c] = "PROPFIND"
    /\ \E d \in Depths :
         /\ req' = [req EXCEPT ![c].depth = d]
         /\ IF loc[c].path = <<>>
            THEN PropfindDepth(c, <<RootResponse>>, d)
            ELSE /\ SetLoc(c, Called(c))
                 /\ Goto(c, "propfind_head")
    /\ UNCHANGED <<store, limit, faults, store0, last, nreq>>

\* The target's own entry comes from a HEAD of its key.
propfind_head(c) ==
    /\ pc[c] = "propfind_head"
    /\ LET response == S3Head(store, loc[c].path)
           rt == MetaGet(response.meta, "resourcetype")
           object == generate_propfind_response(loc[c].path,
                        {<<"resourcetype", IF rt = Null THEN "" ELSE rt>>}, response.size)
       IN  IF response.status = 404
           THEN /\ Respond(c, Status(404))
                /\ UNCHANGED loc
           ELSE IF ~Ok(response.status)
           THEN /\ Catch404(c, response.status)
                /\ UNCHANGED loc
           ELSE IF rt = COLLECTION
           THEN PropfindDepth(c, <<object>>, req[c].depth)
           ELSE /\ Respond(c, [Status(207) EXCEPT !.ms = <<object>>])
                /\ UNCHANGED loc
    /\ UNCHANGED <<store, limit, faults, req, store0, last, nreq>>

\* One page of children (Depth 1) or descendants (Depth infinity).
propfind_list(c) ==
    /\ pc[c] = "propfind_list"
    /\ LET l == loc[c]
           r == listAll(store, l.prefix, l.recursive, l.token, limit)
           page == l.acc \o [i \in 1..Len(r.objects) |->
                      generate_propfind_response(r.objects[i].key, r.objects[i].meta,
                                                 r.objects[i].size)]
       IN  IF r.more
           THEN /\ SetLoc(c, [ListNext(l, r) EXCEPT !.acc = page])
                /\ Goto(c, "propfind_list")
           ELSE /\ SetLoc(c, [ListNext(l, r) EXCEPT !.acc = <<>>])
                /\ Respond(c, [Status(207) EXCEPT !.ms = page])
    /\ UNCHANGED <<store, limit, faults, req, store0, last, nreq>>

\* ------------------------------------------------------------ PROPPATCH
\* new HTMLRewriter().on('propertyupdate', new PropHandler()): the rewriter
\* calls the handler's element() and text() for the elements the selector
\* matches and never calls a method named end, the only one that records a
\* property, so both collections stay as they were initialised.
PropHandler(instructions) == [setProperties |-> <<>>, removeProperties |-> <<>>]

\* The x-amz-meta-* headers of the re-upload: the existing metadata, then
\* the set properties, then without the removed ones.
PatchedMeta(meta, parsed) ==
    LET sets == Range(parsed.setProperties)
        gone == {i[2] : i \in Range(parsed.removeProperties)}
        kept == {p \in meta : \A i \in sets : i[2] # p[1]}
    IN  {p \in kept \cup {<<i[2], i[3]>> : i \in sets} : p[1] \notin gone}

\* One <response> per set property, then one per removed property.
PropResponses(path, parsed) ==
    LET names == parsed.setProperties \o parsed.removeProperties
    IN  [i \in 1..Len(names) |-> [href |-> SLASH \o path, prop |-> names[i][2],
                                  status |-> 200]]

handle_proppatch(c) ==
    /\ pc[c] = "PROPPATCH"
    /\ SetLoc(c, Called(c))
    /\ Goto(c, "proppatch_head")
    /\ UNCHANGED <<store, limit, faults, req, store0, last, nreq>>

\* The target must exist; then the request body is read and parsed.
proppatch_head(c) ==
    /\ pc[c] = "proppatch_head"
    /\ LET headResponse == S3Head(store, loc[c].path)
       IN  IF headResponse.status = 404
           THEN /\ Respond(c, Status(404))
                /\ UNCHANGED <<req, loc>>
           ELSE /\ \E i \in Instructions : req' = [req EXCEPT ![c].props = i]
                /\ SetLoc(c, [loc[c] EXCEPT !.head = headResponse])
                /\ Goto(c, "proppatch_get")
    /\ UNCHANGED <<store, limit, faults, store0, last, nreq>>

\* The current object is fetched.
proppatch_get(c) ==
    /\ pc[c] = "proppatch_get"
    /\ LET getResponse == S3Get(store, loc[c].path, FALSE)
       IN  IF ~Ok(getResponse.status)
           THEN /\ Respond(c, Status(404))
                /\ SetLoc(c, [loc[c] EXCEPT !.head = NoHead])
           ELSE /\ SetLoc(c, [loc[c] EXCEPT !.objectBody = getResponse.body])
                /\ Goto(c, "proppatch_put")
    /\ UNCHANGED <<store, limit, faults, req, store0, last, nreq>>

\* The object is re-uploaded with the merged metadata.
proppatch_put(c) ==
    /\ pc[c] = "proppatch_put"
    /\ LET l == loc[c]
           parsed == PropHandler(req[c].props)
           putResponse == S3Put(store, l.path, l.objectBody,
                                PatchedMeta(l.head.meta, parsed), l.head.ctype)
       IN  /\ store' = putResponse.store
           /\ SetLoc(c, [l EXCEPT !.head = NoHead, !.objectBody = <<>>])
           /\ IF ~Ok(putResponse.status) THEN Catch404(c, putResponse.status)
              ELSE Respond(c, [Status(207) EXCEPT !.ms = PropResponses(l.path, parsed)])
    /\ UNCHANGED <<limit, faults, req, store0, last, nreq>>

\* ----------------------------------------------------------- COPY, MOVE
\* new URL(destination_header).pathname.slice(1), one trailing slash dropped.
Destination(header) == StripSlash(SliceFrom(header, 1))

\* destination.split('/').slice(0, destination.endsWith('/') ? -2 : -1).join('/')
DestinationParent(d) == IF EndsWithSlash(d) THEN DirName(DirName(d)) ELSE DirName(d)

\* The target of a descendant: destination + '/' + objectKey.slice(prefix.length),
\* one trailing slash dropped.
Target(destination, prefix, objectKey) ==
    StripSlash(destination \o SLASH \o SliceFrom(objectKey, Len(prefix)))

\* The 201/204 answer of COPY and MOVE.
CopyStatus(l) == IF l.destination_exists THEN 204 ELSE 201

\* promise_array gains one pending operation per listed object.
AddTasks(t, objects, stage) ==
    LET keys == {objects[i].key : i \in 1..Len(objects)}
    IN  [k \in DOMAIN t \cup keys |-> IF k \in DOMAIN t THEN t[k] ELSE stage]

\* Fault for C23: a join that rejects with the first rejection but never
\* resolves.
FanWait(c, l, label) ==
    IF pc[c] = "done" THEN UNCHANGED <<pc, resp>>
    ELSE IF ~l.listing /\ l.ferr # 0 THEN Catch404(c, l.ferr)
    ELSE Goto(c, label)

\* Fault for C24: a join that waits for the listing and for no operation.
FanFirst(c, l, label) ==
    IF pc[c] = "done" THEN UNCHANGED <<pc, resp>>
    ELSE IF l.listing THEN Goto(c, label)
    ELSE IF l.ferr # 0 THEN Catch404(c, l.ferr)
    ELSE Respond(c, Status(CopyStatus(l)))

\* await Promise.all(promise_array), reached once the listing is exhausted:
\* it rejects with the first rejection and resolves once all have resolved.
FanJoin(c, l, label) ==
    IF pc[c] = "done" THEN UNCHANGED <<pc, resp>>
    ELSE IF l.listing THEN Goto(c, label)
    ELSE IF l.ferr # 0 THEN Catch404(c, l.ferr)
    ELSE IF \A k \in DOMAIN l.tasks : l.tasks[k] = "ok" THEN Respond(c, Status(CopyStatus(l)))
    ELSE Goto(c, label)

\* The copied keys of a MOVE after the copy of key k returned status.
Copied(l, k, status) == IF Ok(status) THEN l.copied \cup {k} ELSE l.copied

\* The failures of a fan-out after an operation that returned status.
Errors(l, status) == IF Ok(status) THEN l.failures ELSE l.failures + 1

\* The start of the Depth: infinity fan-out: the collection's own operation
\* is issued, then the first listing page is requested.
FanStart(l) == [ListStart(l, l.path \o SLASH, TRUE) EXCEPT
                   !.acc = <<>>, !.ferr = 0, !.tasks = [k \in {l.path} |-> "copy"]]

\* Overwrite and Destination are read first; no Destination is a 400.
\* (The header is absent when d is the empty string.)
CopyMoveEnter(c, label) ==
    \E o \in Overwrites, d \in Destinations \cup {<<>>} :
      /\ req' = [req EXCEPT ![c].dest = d]
      /\ IF d = <<>>
         THEN /\ Respond(c, Status(400))
              /\ SetLoc(c, [loc[c] EXCEPT !.dont_overwrite = (o = "F"),
                                          !.overwrite = (o = "T")])
         ELSE /\ SetLoc(c, [loc[c] EXCEPT !.called = TRUE, !.destination = Destination(d),
                                          !.dont_overwrite = (label = "copy" /\ o = "F"),
                                          !.overwrite = (label = "move" /\ o = "T")])
              /\ Goto(c, IF DestinationParent(Destination(d)) # <<>>
                         THEN label \o "_parent" ELSE label \o "_dest")

handle_copy(c) ==
    /\ pc[c] = "COPY"
    /\ CopyMoveEnter(c, "copy")
    /\ UNCHANGED <<store, limit, faults, store0, last, nreq>>

\* The destination's parent key must exist.
copy_parent(c) ==
    /\ pc[c] = "copy_parent"
    /\ LET parentResponse == S3Head(store, DestinationParent(loc[c].destination))
       IN  IF parentResponse.status = 404 THEN Respond(c, Status(409))
           ELSE Goto(c, "copy_dest")
    /\ UNCHANGED <<store, limit, faults, req, loc, store0, last, nreq>>

\* An existing destination is refused under Overwrite: F.
copy_dest(c) ==
    /\ pc[c] = "copy_dest"
    /\ LET destResponse == S3Head(store, loc[c].destination)
       IN  IF Ok(destResponse.status) /\ loc[c].dont_overwrite
           THEN /\ Respond(c, Status(412))
                /\ UNCHANGED loc
           ELSE /\ SetLoc(c, [loc[c] EXCEPT !.destination_exists = Ok(destResponse.status)])
                /\ Goto(c, "copy_source")
    /\ UNCHANGED <<store, limit, faults, req, store0, last, nreq>>

\* The source must exist; a collection is copied as Depth says.
copy_source(c) ==
    /\ pc[c] = "copy_source"
    /\ LET sourceResponse == S3Head(store, loc[c].path)
           is_dir == MetaGet(sourceResponse.meta, "resourcetype") = COLLECTION
       IN  IF sourceResponse.status = 404
           THEN /\ Respond(c, Status(404))
                /\ UNCHANGED loc
           ELSE IF ~is_dir
           THEN /\ Goto(c, "copy_object")
                /\ UNCHANGED loc
           ELSE \E d \in Depths :
                  LET depth == IF d = Null THEN "infinity" ELSE d
                      l == [loc[c] EXCEPT !.is_dir = TRUE, !.depth = depth]
                  IN  IF depth = "infinity"
                      THEN /\ SetLoc(c, FanStart(l))
                           /\ Goto(c, "copy_fan")
                      ELSE IF depth = "0"
                      THEN /\ Goto(c, "copy_object")
                           /\ SetLoc(c, l)
                      ELSE /\ Respond(c, Status(400))
                           /\ SetLoc(c, l)
    /\ UNCHANGED <<store, limit, faults, req, store0, last, nreq>>

\* A plain resource, or a collection at Depth 0: one server-side copy.
copy_object(c) ==
    /\ pc[c] = "copy_object"
    /\ LET copyResponse == S3Copy(store, loc[c].path, loc[c].destination)
       IN  /\ store' = copyResponse.store
           /\ IF ~Ok(copyResponse.status) THEN Catch404(c, copyResponse.status)
              ELSE Respond(c, Status(CopyStatus(loc[c])))
    /\ UNCHANGED <<limit, faults, req, loc, store0, last, nreq>>

\* The store answers a listing page: one copy is launched per listed object.
copy_fan_list(c) ==
    /\ pc[c] = "copy_fan"
    /\ loc[c].listing
    /\ \E r \in {listAll(store, loc[c].prefix, TRUE, loc[c].token, limit)} :
         LET l == loc[c]
             n == [ListNext(l, r) EXCEPT !.tasks = AddTasks(l.tasks, r.objects, "copy")]
         IN  /\ SetLoc(c, n)
             /\ FanJoin(c, n, "copy_fan")
    /\ UNCHANGED <<store, limit, faults, req, store0, last, nreq>>

\* The store performs one launched copy.  The result of the collection's own
\* copy is not inspected; a descendant's non-success status is thrown.
\* A copy still in flight when the request has already failed may yet be
\* performed, or be dropped when the response is returned.
copy_fan_task(c, k) ==
    /\ pc[c] = "copy_fan" \/ (pc[c] = "done" /\ req[c].method = "COPY")
    /\ k \in DOMAIN loc[c].tasks
    /\ loc[c].tasks[k] = "copy"
    /\ LET l == loc[c]
           target == IF k = l.path THEN l.destination ELSE Target(l.destination, l.prefix, k)
           copyResponse == S3Copy(store, k, target)
           failed == k # l.path /\ ~Ok(copyResponse.status)
           n == [l EXCEPT !.tasks[k] = IF failed THEN "failed" ELSE "ok",
                          !.ferr = IF failed /\ l.ferr = 0 THEN copyResponse.status ELSE l.ferr,
                          !.failures = Errors(l, copyResponse.status)]
       IN  /\ store' = copyResponse.store
           /\ SetLoc(c, n)
           /\ FanJoin(c, n, "copy_fan")
    /\ UNCHANGED <<limit, faults, req, store0, last, nreq>>

handle_move(c) ==
    /\ pc[c] = "MOVE"
    /\ CopyMoveEnter(c, "move")
    /\ UNCHANGED <<store, limit, faults, store0, last, nreq>>

move_parent(c) ==
    /\ pc[c] = "move_parent"
    /\ LET parentResponse == S3Head(store, DestinationParent(loc[c].destination))
       IN  IF parentResponse.status = 404 THEN Respond(c, Status(409))
           ELSE Goto(c, "move_dest")
    /\ UNCHANGED <<store, limit, faults, req, loc, store0, last, nreq>>

\* An existing destination is refused unless Overwrite: T.
move_dest(c) ==
    /\ pc[c] = "move_dest"
    /\ LET destResponse == S3Head(store, loc[c].destination)
       IN  IF Ok(destResponse.status) /\ ~loc[c].overwrite
           THEN /\ Respond(c, Status(412))
                /\ UNCHANGED loc
           ELSE /\ SetLoc(c, [loc[c] EXCEPT !.destination_exists = Ok(destResponse.status)])
                /\ Goto(c, "move_source")
    /\ UNCHANGED <<store, limit, faults, req, store0, last, nreq>>

\* The part of handle_move after the pre-delete: the Depth switch of a
\* collection, or the copy of a plain resource.
MoveDispatch(c, l) ==
    IF ~l.is_dir
    THEN /\ SetLoc(c, l)
         /\ Goto(c, "move_copy")
    ELSE \E d \in Depths :
           LET depth == IF d = Null THEN "infinity" ELSE d
               n == [l EXCEPT !.depth = depth]
           IN  IF depth = "infinity"
               THEN /\ SetLoc(c, FanStart(n))
                    /\ Goto(c, "move_fan")
               ELSE IF depth = "0"
               THEN /\ SetLoc(c, n)
                    /\ Goto(c, "move_copy")
               ELSE /\ SetLoc(c, n)
                    /\ Respond(c, Status(400))

\* The source must exist and differ from the destination; an existing
\* destination is deleted by handle_delete before the move.
move_source(c) ==
    /\ pc[c] = "move_source"
    /\ LET sourceResponse == S3Head(store, loc[c].path)
           l == [loc[c] EXCEPT
                   !.is_dir = MetaGet(sourceResponse.meta, "resourcetype") = COLLECTION]
       IN  IF sourceResponse.status = 404
           THEN /\ Respond(c, Status(404))
                /\ UNCHANGED loc
           ELSE IF loc[c].path = loc[c].destination
           THEN /\ Respond(c, Status(400))
                /\ UNCHANGED loc
           ELSE IF loc[c].destination_exists
           THEN /\ SetLoc(c, DeleteEnter([l EXCEPT !.ret = "move"], l.destination))
                /\ Goto(c, DeleteLabel(l.destination))
           ELSE MoveDispatch(c, l)
    /\ UNCHANGED <<store, limit, faults, req, store0, last, nreq>>

\* handle_delete has returned to handle_move.
move_dispatch(c) ==
    /\ pc[c] = "move_dispatch"
    /\ MoveDispatch(c, [loc[c] EXCEPT !.ret = "client"])
    /\ UNCHANGED <<store, limit, faults, req, store0, last, nreq>>

\* A plain resource, or a collection at Depth 0: copy ...
move_copy(c) ==
    /\ pc[c] = "move_copy"
    /\ LET copyResponse == S3Copy(store, loc[c].path, loc[c].destination)
       IN  /\ store' = copyResponse.store
           /\ SetLoc(c, [loc[c] EXCEPT !.copied = Copied(loc[c], loc[c].path, copyResponse.status)])
           /\ IF ~Ok(copyResponse.status) THEN Catch404(c, copyResponse.status)
              ELSE Goto(c, "move_delete")
    /\ UNCHANGED <<limit, faults, req, store0, last, nreq>>

\* ... then delete the source, whose result is not inspected.
move_delete(c) ==
    /\ pc[c] = "move_delete"
    /\ store' = S3Delete(store, loc[c].path).store
    /\ Respond(c, Status(CopyStatus(loc[c])))
    /\ UNCHANGED <<limit, faults, req, loc, store0, last, nreq>>

\* The store answers a listing page: one move is launched per listed object.
move_fan_list(c) ==
    /\ pc[c] = "move_fan"
    /\ loc[c].listing
    /\ \E r \in {listAll(store, loc[c].prefix, TRUE, loc[c].token, limit)} :
         LET l == loc[c]
             n == [ListNext(l, r) EXCEPT !.tasks = AddTasks(l.tasks, r.objects, "copy")]
         IN  /\ SetLoc(c, n)
             /\ FanJoin(c, n, "move_fan")
    /\ UNCHANGED <<store, limit, faults, req, store0, last, nreq>>

\* The store performs the copy of one launched move; on success (for the
\* collection's own object: whatever the result) the delete is issued.
move_fan_copy(c, k) ==
    /\ pc[c] = "move_fan" \/ (pc[c] = "done" /\ req[c].method = "MOVE")
    /\ k \in DOMAIN loc[c].tasks
    /\ loc[c].tasks[k] = "copy"
    /\ LET l == loc[c]
           target == IF k = l.path THEN l.destination ELSE Target(l.destination, l.prefix, k)
           copyResponse == S3Copy(store, k, target)
           failed == k # l.path /\ ~Ok(copyResponse.status)
           n == [l EXCEPT !.tasks[k] = IF failed THEN "failed" ELSE "delete",
                          !.ferr = IF failed /\ l.ferr = 0 THEN copyResponse.status ELSE l.ferr,
                          !.failures = Errors(l, copyResponse.status),
                          !.copied = Copied(l, k, copyResponse.status)]
       IN  /\ store' = copyResponse.store
           /\ SetLoc(c, n)
           /\ FanJoin(c, n, "move_fan")
    /\ UNCHANGED <<limit, faults, req, store0, last, nreq>>

\* The store performs the delete of one launched move.
move_fan_delete(c, k) ==
    /\ pc[c] = "move_fan" \/ (pc[c] = "done" /\ req[c].method = "MOVE")
    /\ k \in DOMAIN loc[c].tasks
    /\ loc[c].tasks[k] = "delete"
    /\ LET l == loc[c]
           deleteResponse == S3Delete(store, k)
           n == [l EXCEPT !.tasks[k] = "ok",
                          !.failures = Errors(l, deleteResponse.status)]
       IN  /\ store' = deleteResponse.store
           /\ SetLoc(c, n)
           /\ FanJoin(c, n, "move_fan")
    /\ UNCHANGED <<limit, faults, req, store0, last, nreq>>

\* ------------------------------------------------------ the specification
Coll == Obj(<<>>, CollectionMeta, "binary/octet-stream")
File(b) == Obj(b, NoMeta, "binary/octet-stream")

\* Stores the gateway builds from the empty store with MKCOL and PUT.
Tree == [k \in { <<"a">>, <<"a", "/", "a">>, <<"a", "/", "b">>,
                 <<"a", "/", "b", "/", "a">>, <<"a", "b">> } |->
           IF k \in { <<"a">>, <<"a", "/", "b">> } THEN Coll
           ELSE IF k = <<"a", "/", "a">> THEN File(<<1>>)
           ELSE File(<<2, 1>>)]

InitialStores == { <<>>, Tree }

\* Everything but the store and the open connections.
Start ==
    /\ req = [c \in Clients |-> NoReq]
    /\ resp = [c \in Clients |-> NoResp]
    /\ loc = [c \in Clients |-> NoLoc]
    /\ store0 = store
    /\ last = NoLast
    /\ nreq = 0

\* One client, whose requests do not overlap, on a store that never fails.
Init ==
    /\ store \in InitialStores
    /\ limit \in 1..MaxPage
    /\ faults = {}
    /\ pc = [c \in Clients |-> IF c = 1 THEN "idle" ELSE "closed"]
    /\ Start

\* Calls the store may be unable to serve: the HEAD of a collection, the
\* copy to a new key, the delete of a resource.
Outages == { {<<"HEAD", <<"a">> >>}, {<<"COPY", <<"b">> >>},
             {<<"DELETE", <<"a", "/", "a">> >>} }

\* One client on a store that fails some calls and lists in pages of one.
InitFault ==
    /\ store = Tree
    /\ limit = 1
    /\ faults \in Outages
    /\ pc = [c \in Clients |-> IF c = 1 THEN "idle" ELSE "closed"]
    /\ Start

\* Two clients, whose requests overlap, on a store that never fails.
InitConcurrent ==
    /\ store \in InitialStores
    /\ limit \in 1..MaxPage
    /\ faults = {}
    /\ pc = [c \in Clients |-> "idle"]
    /\ Start

Next ==
    \E c \in Clients :
      \/ fetch(c)
      \/ Return(c)
      \/ handle_get(c)
      \/ get_list(c)
      \/ get_object(c)
      \/ handle_put(c)
      \/ put_parent(c)
      \/ put_object(c)
      \/ handle_mkcol(c)
      \/ mkcol_head(c)
      \/ mkcol_parent(c)
      \/ mkcol_put(c)
      \/ handle_delete(c)
      \/ delete_all_list(c)
      \/ delete_all_batch(c)
      \/ delete_head(c)
      \/ delete_object(c)
      \/ delete_list(c)
      \/ delete_batch(c)
      \/ handle_propfind(c)
      \/ propfind_head(c)
      \/ propfind_list(c)
      \/ handle_proppatch(c)
      \/ proppatch_head(c)
      \/ proppatch_get(c)
      \/ proppatch_put(c)
      \/ handle_copy(c)
      \/ copy_parent(c)
      \/ copy_dest(c)
      \/ copy_source(c)
      \/ copy_object(c)
      \/ copy_fan_list(c)
      \/ \E k \in DOMAIN loc[c].tasks : copy_fan_task(c, k)
      \/ handle_move(c)
      \/ move_parent(c)
      \/ move_dest(c)
      \/ move_source(c)
      \/ move_dispatch(c)
      \/ move_copy(c)
      \/ move_delete(c)
      \/ move_fan_list(c)
      \/ \E k \in DOMAIN loc[c].tasks : move_fan_copy(c, k)
      \/ \E k \in DOMAIN loc[c].tasks : move_fan_delete(c, k)

Spec == Init /\ [][Next]_vars

SpecFault == InitFault /\ [][Next]_vars

\* Overlapping uploads.
NextConcurrent ==
    \E c \in Clients :
      \/ fetch_upload(c)
      \/ Return(c)
      \/ handle_put(c)
      \/ put_parent(c)
      \/ put_object(c)
      \/ handle_proppatch(c)
      \/ proppatch_head(c)
      \/ proppatch_get(c)
      \/ proppatch_put(c)

SpecConcurrent == InitConcurrent /\ [][NextConcurrent]_vars

\* The steps of handle_copy and handle_move, the steps of handle_delete that
\* a MOVE runs on its destination included: each is a store call or the
\* continuation that follows one.
Transfer(c) ==
      \/ delete_all_list(c)
      \/ delete_all_batch(c)
      \/ delete_head(c)
      \/ delete_object(c)
      \/ delete_list(c)
      \/ delete_batch(c)
      \/ handle_copy(c)
      \/ copy_parent(c)
      \/ copy_dest(c)
      \/ copy_source(c)
      \/ copy_object(c)
      \/ copy_fan_list(c)
      \/ \E k \in DOMAIN loc[c].tasks : copy_fan_task(c, k)
      \/ handle_move(c)
      \/ move_parent(c)
      \/ move_dest(c)
      \/ move_source(c)
      \/ move_dispatch(c)
      \/ move_copy(c)
      \/ move_delete(c)
      \/ move_fan_list(c)
      \/ \E k \in DOMAIN loc[c].tasks : move_fan_copy(c, k)
      \/ \E k \in DOMAIN loc[c].tasks : move_fan_delete(c, k)

\* Copies and moves.
NextTransfer == \E c \in Clients : fetch_transfer(c) \/ Return(c) \/ Transfer(c)

\* One client about to send the last request of its session.
InitTransfer ==
    /\ store \in InitialStores
    /\ limit \in 1..MaxPage
    /\ faults = {}
    /\ pc = [c \in Clients |-> IF c = 1 THEN "idle" ELSE "closed"]
    /\ req = [c \in Clients |-> NoReq]
    /\ resp = [c \in Clients |-> NoResp]
    /\ loc = [c \in Clients |-> NoLoc]
    /\ store0 = store
    /\ last = NoLast
    /\ nreq = MaxRequests - 1

\* Copies and moves on a store that answers every call: a handler whose
\* next step is a store call or a continuation eventually takes it.
SpecTransfer == InitTransfer /\ [][NextTransfer]_vars /\ WF_vars(Transfer(1))

\* ------------------------------------------------------------ properties
\* The request of client 1 has been answered.
Done == pc[1] = "done"
\* The request carries the configured credentials.
Authorized == req[1].auth = EXPECTED_AUTH
Method(m) == req[1].method = m
ResourcePath == loc[1].path
DestinationPath == loc[1].destination

IsCollection(s, k) == k \in DOMAIN s /\ MetaGet(s[k].meta, "resourcetype") = COLLECTION
\* The keys of s under "<k>/".
Under(s, k) == {x \in DOMAIN s : StartsWith(x, k \o SLASH)}
\* Key k is the same in the store as when the request started.
SameAsBefore(k) ==
    /\ k \in DOMAIN store <=> k \in DOMAIN store0
    /\ k \in DOMAIN store => store[k] = store0[k]

\* The previous request was a PUT of the same URL that returned 201.
AfterPut ==
    /\ last.method = "PUT" /\ last.status = 201 /\ last.url = req[1].url

\* C1: after a PUT K with a non-empty body B returned 201, the next request,
\* a GET of the same URL (no Range header), returns 200 with body B and
\* Content-Length len(B).
C1_PutGetRoundTrip ==
    (/\ Done /\ Method("GET") /\ Authorized /\ ~req[1].ranged
     /\ AfterPut /\ last.body # <<>>)
    => /\ resp[1].status = 200
       /\ resp[1].body = last.body
       /\ resp[1].clen = Len(last.body)

\* A two-byte body was PUT below a collection and read back.
C1_Witness ==
    /\ Done /\ Method("GET") /\ Authorized /\ ~req[1].ranged
    /\ AfterPut /\ Len(last.body) = 2 /\ DirName(ResourcePath) # <<>>
    /\ resp[1].status = 200

\* The previous request was a MKCOL of the same resource path that
\* returned 201.
AfterMkcol ==
    /\ last.method = "MKCOL" /\ last.status = 201
    /\ make_resource_path(last.url) = ResourcePath

\* C2: after MKCOL P returned 201, the next request, a PROPFIND P with
\* Depth: 0, returns 207 with exactly one response entry, for P, whose
\* resourcetype is the collection value.
C2_MkcolPropfind ==
    (/\ Done /\ Method("PROPFIND") /\ Authorized /\ loc[1].depth \in {"0", "unread"}
     /\ AfterMkcol)
    => /\ resp[1].status = 207
       /\ Len(resp[1].ms) = 1
       /\ make_resource_path(resp[1].ms[1].href) = ResourcePath
       /\ resp[1].ms[1].resourcetype = COLLECTION

\* A collection was made with a trailing slash in the URL and PROPFIND
\* Depth: 0 without one was answered.
C2_Witness ==
    /\ Done /\ Method("PROPFIND") /\ Authorized /\ loc[1].depth = "0"
    /\ AfterMkcol /\ EndsWithSlash(last.url) /\ ~EndsWithSlash(req[1].url)
    /\ resp[1].status = 207

\* A MOVE or COPY of a collection with Depth: infinity (or no Depth header)
\* has answered 201 or 204.
RecursiveDone(m) ==
    /\ Done /\ Method(m) /\ IsCollection(store0, ResourcePath)
    /\ loc[1].depth = "infinity"
    /\ resp[1].status \in {201, 204}

\* Every key C/r of the source subtree is present at D/r with C/r's content.
SubtreeAtDestination ==
    \A k \in Under(store0, ResourcePath) :
       LET t == Target(DestinationPath, ResourcePath \o SLASH, k)
       IN  t \in DOMAIN store /\ store[t] = store0[k]

\* C3: after a recursive MOVE C -> D, D # C, answered 201 or 204, C and every
\* key under C/ are absent and every former key C/r is present at D/r with
\* the content C/r had.
C3_RecursiveMove ==
    (RecursiveDone("MOVE") /\ DestinationPath # ResourcePath)
    => /\ ResourcePath \notin DOMAIN store
       /\ Under(store, ResourcePath) = {}
       /\ SubtreeAtDestination

\* C4: after a recursive COPY C -> D answered 201 or 204, D is a collection
\* (the root is one without being stored), every key C/r is present at D/r
\* with identical content, and C and its descendants are present and
\* unchanged.
C4_RecursiveCopy ==
    RecursiveDone("COPY")
    => /\ DestinationPath = <<>> \/ IsCollection(store, DestinationPath)
       /\ SubtreeAtDestination
       /\ \A k \in {ResourcePath} \cup Under(store0, ResourcePath) :
             k \in DOMAIN store /\ store[k] = store0[k]

\* C5: a COPY with Overwrite: F onto a destination key that exists returns
\* 412 and leaves the store unchanged.
C5_CopyNoOverwrite ==
    (/\ Done /\ Method("COPY") /\ Authorized /\ loc[1].dont_overwrite
     /\ req[1].dest # <<>> /\ Destination(req[1].dest) \in DOMAIN store0)
    => /\ resp[1].status = 412
       /\ store = store0

\* A DELETE of a key, not of the root.
DeleteOfKey == Done /\ Method("DELETE") /\ Authorized /\ ResourcePath # <<>>

\* The previous request was a DELETE of the same key that returned 204.
AfterDelete ==
    /\ Authorized /\ ResourcePath # <<>>
    /\ last.method = "DELETE" /\ last.status = 204
    /\ make_resource_path(last.url) = ResourcePath

\* C6: a DELETE of an absent key returns 404 and leaves the store unchanged;
\* after a DELETE K that returned 204, K is absent, the next GET of K (a URL
\* without a trailing slash) returns 404, and the next DELETE of K returns
\* 404 and leaves the store unchanged.
C6_DeleteIdempotent ==
    /\ (DeleteOfKey /\ ResourcePath \notin DOMAIN store0)
       => (resp[1].status = 404 /\ store = store0)
    /\ (DeleteOfKey /\ resp[1].status = 204) => ResourcePath \notin DOMAIN store
    /\ (AfterDelete /\ pc[1] # "idle") => ResourcePath \notin DOMAIN store0
    /\ (AfterDelete /\ Done /\ Method("GET") /\ ~EndsWithSlash(req[1].url))
       => resp[1].status = 404
    /\ (AfterDelete /\ Done /\ Method("DELETE"))
       => (resp[1].status = 404 /\ store = store0)

\* A key was deleted with 204 and the DELETE was repeated.
C6_Witness ==
    /\ AfterDelete /\ Done /\ Method("DELETE")
    /\ resp[1].status = 404 /\ store # <<>>

\* C7: after DELETE C on a collection C returned 204, C and every key with
\* prefix C/ are absent and every other key is unchanged; for the root every
\* key is absent.
C7_DeleteSubtree ==
    (/\ Done /\ Method("DELETE") /\ Authorized /\ resp[1].status = 204
     /\ (ResourcePath = <<>> \/ IsCollection(store0, ResourcePath)))
    => IF ResourcePath = <<>> THEN DOMAIN store = {}
       ELSE /\ ResourcePath \notin DOMAIN store
            /\ Under(store, ResourcePath) = {}
            /\ \A k \in (DOMAIN store0 \cup DOMAIN store) \ {ResourcePath} :
                  ~StartsWith(k, ResourcePath \o SLASH) => SameAsBefore(k)

\* Collection a was deleted, its subtree being longer than a page, next to
\* the key ab, which shares its string prefix.
C7_Witness ==
    /\ Done /\ Method("DELETE") /\ Authorized /\ resp[1].status = 204
    /\ ResourcePath = <<"a">> /\ IsCollection(store0, ResourcePath)
    /\ Cardinality(Under(store0, ResourcePath)) > limit
    /\ <<"a", "b">> \in DOMAIN store0 /\ <<"a", "b">> \in DOMAIN store

\* The immediate children of collection p in s: the keys one segment below.
Children(s, p) ==
    LET prefix == IF p = <<>> THEN <<>> ELSE p \o SLASH
    IN  {k \in DOMAIN s : /\ StartsWith(k, prefix)
                          /\ Len(k) > Len(prefix)
                          /\ SlashAt(SliceFrom(k, Len(prefix))) = {}}

\* A PROPFIND with Depth: 1 on a collection (or the root) has been answered.
PropfindDepth1 ==
    /\ Done /\ Method("PROPFIND") /\ Authorized /\ loc[1].depth = "1"
    /\ (ResourcePath = <<>> \/ IsCollection(store0, ResourcePath))

\* C8: PROPFIND with Depth: 1 on a collection returns 1 + n entries: the
\* first for the collection, the others for its n immediate children, one
\* each, and none for a deeper descendant.
C8_PropfindDepth1 ==
    PropfindDepth1
    => /\ resp[1].status = 207
       /\ Len(resp[1].ms) = 1 + Cardinality(Children(store0, ResourcePath))
       /\ make_resource_path(resp[1].ms[1].href) = ResourcePath
       /\ {make_resource_path(resp[1].ms[i].href) : i \in 2..Len(resp[1].ms)}
            = Children(store0, ResourcePath)

\* Collection a, with two children and a grandchild, was listed in pages of
\* one entry.
C8_Witness ==
    /\ PropfindDepth1 /\ ResourcePath = <<"a">> /\ limit = 1
    /\ Cardinality(Children(store0, ResourcePath)) = 2
    /\ Under(store0, ResourcePath) # Children(store0, ResourcePath)
    /\ Len(resp[1].ms) = 3

\* The keys a complete listing of prefix reports as objects: every key with
\* the prefix, or with the delimiter only those of the first level.
Listed(s, prefix, isRecursive) ==
    {k \in DOMAIN s : /\ StartsWith(k, prefix)
                      /\ isRecursive \/ SlashAt(SliceFrom(k, Len(prefix))) = {}}

\* A listAll enumeration has ended and the store is still as it was during
\* the enumeration.
EnumerationEnded ==
    /\ loc[1].listed
    /\ \/ pc[1] \in {"delete_batch", "delete_all_batch"}
       \/ Done /\ req[1].method \in {"PROPFIND", "GET", "HEAD"}

\* C9: on a store not modified during the enumeration, listAll yields every
\* key under the prefix exactly once, in store order, for every page limit.
C9_ListingPagination ==
    EnumerationEnded
    => loc[1].yielded = SortKeys(Listed(store, loc[1].prefix, loc[1].recursive))

\* An enumeration of more keys than two pages hold has ended.
C9_Witness ==
    /\ EnumerationEnded /\ loc[1].prefix # <<>>
    /\ Len(loc[1].yielded) > 2 * limit

\* C10: a request of a method other than OPTIONS without the configured
\* credentials is answered 401 with WWW-Authenticate, runs no handler,
\* issues no store call and leaves the store unchanged; OPTIONS is answered
\* 204 whatever the credentials.
C10_Unauthorized ==
    /\ (pc[1] # "idle" /\ ~Method("OPTIONS") /\ ~Authorized)
       => /\ Done /\ resp[1].status = 401 /\ resp[1].www
          /\ ~loc[1].called /\ store = store0
    /\ (pc[1] # "idle" /\ Method("OPTIONS"))
       => /\ Done /\ resp[1].status = 204

\* A DELETE with wrong credentials was refused on a store holding keys.
C10_Witness ==
    /\ Done /\ Method("DELETE") /\ req[1].auth \notin {Null, EXPECTED_AUTH}
    /\ resp[1].status = 401 /\ DOMAIN store0 # {}

\* A PUT of client 1 with the configured credentials.
PutRequest == Method("PUT") /\ Authorized
\* The parent of the target is the root or a collection.
ParentIsCollection(s, k) == DirName(k) = <<>> \/ IsCollection(s, DirName(k))

\* C11: a PUT whose URL ends with "/" returns 405; a PUT to a key below the
\* root level whose parent key is absent, or present without the collection
\* sentinel, returns 409; in these cases no upload is issued and the store
\* is unchanged.  A PUT whose parent is the root or a collection returns 201.
C11_PutPreconditions ==
    /\ (Done /\ PutRequest)
       => IF EndsWithSlash(req[1].url)
          THEN resp[1].status = 405 /\ store = store0 /\ ~loc[1].called
          ELSE IF ~ParentIsCollection(store0, ResourcePath)
          THEN resp[1].status = 409 /\ store = store0
          ELSE resp[1].status = 201
    /\ (pc[1] = "put_object" /\ PutRequest)
       => ~EndsWithSlash(req[1].url) /\ ParentIsCollection(store0, ResourcePath)

\* A PUT below a key that is present but is not a collection was refused.
C11_Witness ==
    /\ Done /\ PutRequest /\ resp[1].status = 409
    /\ DirName(ResourcePath) \in DOMAIN store0
    /\ ~IsCollection(store0, DirName(ResourcePath))

\* The target of the request exists: the root, or a stored key.
TargetExists == ResourcePath = <<>> \/ ResourcePath \in DOMAIN store0

\* C12: MKCOL on a key that exists returns 405, MKCOL on a key whose parent
\* key is absent returns 409, both with the store unchanged; otherwise MKCOL
\* returns 201 and the store gains, at exactly that key, a zero-length object
\* carrying the collection sentinel.
C12_MkcolPreconditions ==
    (Done /\ Method("MKCOL") /\ Authorized)
    => IF TargetExists
       THEN resp[1].status = 405 /\ store = store0
       ELSE IF DirName(ResourcePath) # <<>> /\ DirName(ResourcePath) \notin DOMAIN store0
       THEN resp[1].status = 409 /\ store = store0
       ELSE /\ resp[1].status = 201
            /\ DOMAIN store = DOMAIN store0 \cup {ResourcePath}
            /\ store[ResourcePath].body = <<>>
            /\ store[ResourcePath].meta = CollectionMeta
            /\ \A k \in DOMAIN store0 : store[k] = store0[k]

\* A collection was made below an existing key.
C12_Witness ==
    /\ Done /\ Method("MKCOL") /\ Authorized /\ resp[1].status = 201
    /\ DirName(ResourcePath) \in DOMAIN store0

\* A COPY or MOVE with a Destination header has been answered.
CopyMoveDone ==
    /\ Done /\ (Method("COPY") \/ Method("MOVE")) /\ Authorized
    /\ req[1].dest # <<>>

\* C13: a MOVE of an existing source onto another key that exists returns
\* 412 and leaves the store unchanged unless the request carries
\* Overwrite: T; with Overwrite: T it returns 204, and the destination and
\* its subtree are gone from the store before a copy to the destination is
\* issued.
C13_MoveOverwrite ==
    /\ (/\ CopyMoveDone /\ Method("MOVE")
        /\ ResourcePath \in DOMAIN store0 /\ DestinationPath \in DOMAIN store0
        /\ ResourcePath # DestinationPath)
       => IF loc[1].overwrite THEN resp[1].status = 204
          ELSE resp[1].status = 412 /\ store = store0
    /\ (/\ pc[1] \in {"move_dispatch", "move_copy"}
        /\ DestinationPath \in DOMAIN store0)
       => /\ DestinationPath \notin DOMAIN store
          /\ IsCollection(store0, DestinationPath) => Under(store, DestinationPath) = {}

\* C14: a MOVE of an existing source whose Destination resolves to the
\* source itself returns 400 and leaves the store unchanged, whatever the
\* Overwrite header.
C14_SelfMove ==
    (/\ CopyMoveDone /\ Method("MOVE")
     /\ ResourcePath \in DOMAIN store0 /\ DestinationPath = ResourcePath)
    => resp[1].status = 400 /\ store = store0

\* C15: a COPY or MOVE that succeeds returns 201 exactly when the
\* destination did not exist when the request started, and 204 exactly when
\* it existed (the root always does) and now holds what the source held; a
\* COPY or MOVE of an absent source returns 404 and leaves the store
\* unchanged.
C15_CopyMoveStatus ==
    /\ (CopyMoveDone /\ resp[1].status \in {201, 204})
       => IF DestinationPath = <<>> THEN resp[1].status = 204
          ELSE IF DestinationPath \notin DOMAIN store0 THEN resp[1].status = 201
          ELSE /\ resp[1].status = 204
               /\ DestinationPath \in DOMAIN store
               /\ store[DestinationPath] = store0[ResourcePath]
    /\ (CopyMoveDone /\ ~TargetExists)
       => resp[1].status = 404 /\ store = store0

\* C16: a recursive COPY or MOVE answers 201 or 204 only if every store
\* operation of its fan-out (the copy of the collection's own object, every
\* descendant copy and, for MOVE, every source delete) returned success.
C16_FanOutFailure ==
    (RecursiveDone("COPY") \/ RecursiveDone("MOVE"))
    => loc[1].failures = 0

\* The key of the first existence check of the request, or the root when
\* the request makes none.
FirstCheck ==
    CASE Method("PUT") ->
           IF EndsWithSlash(req[1].url) THEN <<>> ELSE DirName(ResourcePath)
      [] Method("COPY") \/ Method("MOVE") ->
           IF req[1].dest = <<>> THEN <<>>
           ELSE IF DestinationParent(DestinationPath) # <<>>
           THEN DestinationParent(DestinationPath) ELSE DestinationPath
      [] Method("MKCOL") \/ Method("DELETE") \/ Method("PROPFIND")
           \/ Method("PROPPATCH") -> ResourcePath
      [] OTHER -> <<>>

\* C17: a request whose first existence check is answered by the store with
\* an error other than 404 ends as a server error, not with a WebDAV status,
\* and leaves the store unchanged.
C17_HeadErrorPropagates ==
    (Done /\ Authorized /\ Fails("HEAD", FirstCheck))
    => resp[1].status = 500 /\ store = store0

\* C18: a PROPFIND of an existing target, collection or plain resource,
\* whose Depth header is present and is none of 0, 1 and infinity returns
\* 403; a PROPFIND of an absent target other than the root returns 404
\* whatever the Depth header.
C18_PropfindDepthValidation ==
    (Done /\ Method("PROPFIND") /\ Authorized)
    => IF ~TargetExists THEN resp[1].status = 404
       ELSE req[1].depth \notin {Null, "0", "1", "infinity"} => resp[1].status = 403

\* The property names of the instructions of a PROPPATCH body.
PropNames(instructions) == {i[2] : i \in Range(instructions)}

\* C19: after PROPPATCH of an existing key K returned 207, every set property
\* is in K's metadata with its value, every removed property is absent from
\* it, the other metadata, the Content-Type and the body of K are as before,
\* and the 207 body has one entry per instruction; PROPPATCH of an absent
\* key returns 404 and leaves the store unchanged.
C19_ProppatchEffect ==
    /\ (/\ Done /\ Method("PROPPATCH") /\ Authorized
        /\ ResourcePath \in DOMAIN store0 /\ resp[1].status = 207)
       => /\ ResourcePath \in DOMAIN store
          /\ \A i \in Range(req[1].props) :
                MetaGet(store[ResourcePath].meta, i[2]) = IF i[1] = "set" THEN i[3] ELSE Null
          /\ \A p \in store0[ResourcePath].meta \cup store[ResourcePath].meta :
                p[1] \notin PropNames(req[1].props)
                => (p \in store0[ResourcePath].meta <=> p \in store[ResourcePath].meta)
          /\ store[ResourcePath].body = store0[ResourcePath].body
          /\ store[ResourcePath].ctype = store0[ResourcePath].ctype
          /\ Len(resp[1].ms) = Len(req[1].props)
          /\ \A j \in 1..Len(resp[1].ms) :
                resp[1].ms[j].prop = req[1].props[j][2] /\ resp[1].ms[j].status = 200
    /\ (Done /\ Method("PROPPATCH") /\ Authorized /\ ~TargetExists)
       => resp[1].status = 404 /\ store = store0

\* Client c uploads with the configured credentials.
Put(c) == req[c].method = "PUT" /\ req[c].auth = EXPECTED_AUTH
           /\ ~EndsWithSlash(req[c].url)

\* Both clients' PUTs of the same key, below the root or below a collection,
\* have been answered.
BothPutsDone ==
    /\ pc[1] = "done" /\ pc[2] = "done" /\ Put(1) /\ Put(2)
    /\ loc[1].path = loc[2].path
    /\ ParentIsCollection(store, loc[1].path)

\* The step in which the store applies the upload of client c.
WriteOf(c) == pc[c] = "put_object" /\ pc'[c] = "done"

\* C20: two overlapping PUTs of the same key whose parent is present both
\* return 201 and the key then holds the body of one of them; the store
\* changes only when it applies an upload, and the key then holds the body
\* of the request whose upload was applied, so the last upload wins.
C20_ConcurrentPuts ==
    /\ [](BothPutsDone
          => /\ resp[1].status = 201 /\ resp[2].status = 201
             /\ loc[1].path \in DOMAIN store
             /\ store[loc[1].path].body \in {req[1].body, req[2].body})
    /\ [][/\ \A c \in Clients :
               WriteOf(c) => /\ loc[c].path \in DOMAIN store'
                             /\ store'[loc[c].path].body = req[c].body
          /\ store' # store
             => \E c \in Clients : pc[c] \in {"put_object", "proppatch_put"}
                                   /\ pc'[c] = "done"]_vars

\* Two PUTs of different bodies to the same key below a collection were
\* both answered, and the body of client 1 is the one stored.
C20_Witness ==
    /\ BothPutsDone /\ req[1].body # req[2].body
    /\ DirName(loc[1].path) # <<>>
    /\ resp[1].status = 201 /\ resp[2].status = 201
    /\ store[loc[1].path].body = req[1].body

\* C21: in every MOVE the delete of a source key is issued only after the
\* copy of that key returned success: for a plain resource or a collection
\* at Depth 0, and for every object of a Depth infinity fan-out, the
\* collection's own object included.
C21_CopyThenDelete ==
    Method("MOVE")
    => /\ pc[1] = "move_delete" => ResourcePath \in loc[1].copied
       /\ \A k \in DOMAIN loc[1].tasks :
             loc[1].tasks[k] \in {"delete", "ok"} => k \in loc[1].copied

\* The key an entry of a multistatus body describes.
EntryKey(e) == StripSlash(SliceFrom(e.href, 1))

\* C22: every entry of a PROPFIND answered 207, the target's and each
\* child's or descendant's, has the collection value as resourcetype exactly
\* when the object stored at the entry's key carries the collection
\* sentinel, and the empty value otherwise.
C22_PropfindResourcetype ==
    (Done /\ Method("PROPFIND") /\ resp[1].status = 207)
    => \A i \in DOMAIN resp[1].ms :
         LET e == resp[1].ms[i]
         IN  EntryKey(e) # <<>>
             => /\ e.resourcetype \in {COLLECTION, ""}
                /\ e.resourcetype = COLLECTION <=> IsCollection(store, EntryKey(e))

\* A COPY or MOVE of a collection with Depth infinity is enumerating the
\* collection or waiting for the operations of its fan-out.
FanOut(m) == Method(m) /\ pc[1] \in {"copy_fan", "move_fan"}

C24_FanOutJoined ==
    (RecursiveDone("COPY") \/ RecursiveDone("MOVE"))
    => /\ ~loc[1].listing
       /\ \A k \in DOMAIN loc[1].tasks : loc[1].tasks[k] = "ok"

\* A MOVE of a collection listed in pages of one was answered after it had
\* launched the operations of the collection and of three descendants.
C24_Witness ==
    /\ RecursiveDone("MOVE")
    /\ limit = 1
    /\ Cardinality(DOMAIN loc[1].tasks) > 3

\* Every stored key below the root level has a collection object at its
\* parent path.
Hierarchy(s) == \A k \in DOMAIN s : DirName(k) # <<>> => IsCollection(s, DirName(k))

\* C25: starting from the empty store (or from a tree built from it), on a
\* store that never fails, whenever no request is in progress every stored
\* key with a non-empty parent path has an object at the parent path that
\* carries the collection sentinel.
C25_Hierarchy == pc[1] = "idle" => Hierarchy(store)

\* The content stored at key k before the request is stored now at key k
\* or at the key it maps to under the destination.
Kept(k) ==
    LET d == IF k = ResourcePath THEN DestinationPath
             ELSE Target(DestinationPath, ResourcePath \o SLASH, k)
    IN  \/ k \in DOMAIN store /\ store[k].body = store0[k].body
        \/ d \in DOMAIN store /\ store[d].body = store0[k].body

\* C26: on a store that never fails, once a MOVE of an existing resource S
\* to a destination D # S has been answered, with any status, every object
\* that was stored at S or under S is still stored with the same content,
\* at its original key or at the key it maps to under D.
C26_MoveKeepsContent ==
    (/\ Done /\ Method("MOVE") /\ Authorized
     /\ req[1].dest # <<>>
     /\ ResourcePath \in DOMAIN store0
     /\ DestinationPath # ResourcePath)
    => \A k \in {ResourcePath} \cup Under(store0, ResourcePath) : Kept(k)

\* The client-error statuses the gateway answers.
ClientErrors == {400, 401, 403, 404, 405, 409, 412}

\* C27: on a store that never fails, a request of any method answered with
\* a client-error status leaves the store's keys, bodies and metadata
\* exactly as they were before the request.
C27_ClientErrorNoEffect ==
    (Done /\ resp[1].status \in ClientErrors) => store = store0

\* C28: after a PROPPATCH of an existing key was answered 207, for any list
\* of set and remove instructions, the object at the key carries the
\* collection sentinel exactly when it carried it before the request.
C28_ProppatchKeepsType ==
    (/\ Done /\ Method("PROPPATCH") /\ resp[1].status = 207
     /\ ResourcePath \in DOMAIN store0)
    => (IsCollection(store, ResourcePath) <=> IsCollection(store0, ResourcePath))

\* Client c's PUT was answered 201 and client d's PROPPATCH of the same key
\* was answered 207, neither response having been returned yet.
PutDuringProppatch(c, d) ==
    /\ pc[c] = "done" /\ pc[d] = "done"
    /\ req[c].method = "PUT" /\ resp[c].status = 201
    /\ req[d].method = "PROPPATCH" /\ resp[d].status = 207
    /\ loc[c].path = loc[d].path

\* C29: when a PUT of a key with body B is answered 201 while a PROPPATCH
\* of the same key is in progress, and nothing else writes the key, then
\* once both are finished the key holds body B.
C29_ProppatchNoClobber ==
    \A c, d \in Clients :
      PutDuringProppatch(c, d)
      => /\ loc[c].path \in DOMAIN store
         /\ store[loc[c].path].body = req[c].body

====
